---- MODULE Spec2Model ----
(***************************************************************************)
(* libsha3: the KECCAK-f[1600] permutation (sha3.c, both the unrolled     *)
(* default build and the SHA3_KECCAKF_LOOP build) and the sponge driver   *)
(* sha3_init / sha3_update / sha3_final, for little- and big-endian       *)
(* builds.                                                                *)
(*                                                                         *)
(* A uint64_t lane is the set of its one-bits, a subset of 0..63 (bit 0   *)
(* is the least significant): ^ is symmetric difference, & intersection,  *)
(* ~ complement in 0..63 and a rotation adds to every position modulo 64. *)
(* The union {u8[200], u64[25]} of struct sha3_ctx is kept lane-wise;     *)
(* the byte-wise view is derived from it by the byte order of the build.  *)
(***************************************************************************)
EXTENDS Integers, Sequences, FiniteSets, TLC

\* ------------------------------------------------------------------------
\* 64-bit lane arithmetic
\* ------------------------------------------------------------------------
W64 == 0..63

Xor(a, b) == (a \ b) \cup (b \ a)

And(a, b) == a \cap b

Not(a) == W64 \ a


Lanes == 0..24

\* an array value, held as an explicit table of its elements
Arr(f) == f @@ <<>>

\* F(e) with the argument evaluated before the call, as C does
Call(F(_), e) == CHOOSE r \in {F(v) : v \in {e}} : TRUE

\* for (i = lo; i <= hi; i++) x = F(x, i): the iterations lo..mid, then mid+1..hi
RECURSIVE Loop(_, _, _, _)
Loop(F(_, _), x, lo, hi) ==
    IF lo > hi THEN x
    ELSE IF lo = hi THEN F(x, lo)
    ELSE LET mid == (lo + hi) \div 2
         IN  Call(LAMBDA y : Loop(F, y, mid + 1, hi), Loop(F, x, lo, mid))

\* where bit b of x is in (x << n) | (x >> (64 - n)), for every n
RotTable == Arr([n \in W64 |-> Arr([b \in W64 |-> (b + n) % 64])])

\* rotl64(x, n) = (x << n) | (x >> (64 - n)), for 0 < n < 64
rotl64(x, n) == LET t == RotTable[n] IN {t[b] : b \in x}

ZeroState == Arr([k \in Lanes |-> {}])

\* ------------------------------------------------------------------------
\* keccakf_1600, default (unrolled) build
\* ------------------------------------------------------------------------
\* round constants, as the sets of their one-bits
RC ==
    << {0},
       {1, 7, 15},
       {1, 3, 7, 15, 63},
       {15, 31, 63},
       {0, 1, 3, 7, 15},
       {0, 31},
       {0, 7, 15, 31, 63},
       {0, 3, 15, 63},
       {1, 3, 7},
       {3, 7},
       {0, 3, 15, 31},
       {1, 3, 31},
       {0, 1, 3, 7, 15, 31},
       {0, 1, 3, 7, 63},
       {0, 3, 7, 15, 63},
       {0, 1, 15, 63},
       {1, 15, 63},
       {7, 63},
       {1, 3, 15},
       {1, 3, 31, 63},
       {0, 7, 15, 31, 63},
       {7, 15, 63},
       {0, 31},
       {3, 15, 31, 63} >>

parity(A) == Arr([i \in 0..4 |-> Xor(Xor(Xor(Xor(A[i], A[i + 5]), A[i + 10]), A[i + 15]), A[i + 20])])

\* tmp[0..4] of the unrolled round, lines 242-246
tmp_theta(P) ==
    Arr([i \in 0..4 |->
        CASE i = 0 -> Xor(P[4], rotl64(P[1], 1))
          [] i = 1 -> Xor(P[0], rotl64(P[2], 1))
          [] i = 2 -> Xor(P[1], rotl64(P[3], 1))
          [] i = 3 -> Xor(P[2], rotl64(P[4], 1))
          [] i = 4 -> Xor(P[3], rotl64(P[0], 1))])

\* The assignments of the fused pass in program order:
\* A[dst] = rotl64(A[src] ^ tmp[t], n); src = 25 stands for the saved `start`.
TRP ==
    << <<1, 6, 1, 44>>,  <<6, 9, 4, 20>>,   <<9, 22, 2, 61>>,  <<22, 14, 4, 39>>,
       <<14, 20, 0, 18>>, <<20, 2, 2, 62>>,  <<2, 12, 2, 43>>,  <<12, 13, 3, 25>>,
       <<13, 19, 4, 8>>,  <<19, 23, 3, 56>>, <<23, 15, 0, 41>>, <<15, 4, 4, 27>>,
       <<4, 24, 4, 14>>,  <<24, 21, 1, 2>>,  <<21, 8, 3, 55>>,  <<8, 16, 1, 45>>,
       <<16, 5, 0, 36>>,  <<5, 3, 3, 28>>,   <<3, 18, 3, 21>>,  <<18, 17, 2, 15>>,
       <<17, 11, 1, 10>>, <<11, 7, 2, 6>>,   <<7, 10, 0, 3>>,   <<10, 25, 1, 1>> >>

\* the k-th assignment of the fused pass
assign(A, T, start, k) ==
    LET a == TRP[k]
        v == IF a[2] = 25 THEN start ELSE A[a[2]]
    IN  [A EXCEPT ![a[1]] = rotl64(Xor(v, T[a[3]]), a[4])]

\* lines 249-274: start = A[1]; A[0] ^= tmp[0]; then the 24 assignments
pi_rho_theta(A, T) ==
    Loop(LAMBDA S, k : assign(S, T, A[1], k), [A EXCEPT ![0] = Xor(A[0], T[0])], 1, Len(TRP))

\* chi_y of the unrolled round on the row starting at index r (0, 5, .. 20):
\* the five tmp values are read before any lane of the row is written
chi_row(A, r) ==
    LET t0 == And(Not(A[r + 1]), A[r + 2])
        t1 == And(Not(A[r + 2]), A[r + 3])
        t2 == And(Not(A[r + 3]), A[r + 4])
        t3 == And(Not(A[r + 4]), A[r + 0])
        t4 == And(Not(A[r + 0]), A[r + 1])
    IN  [A EXCEPT ![r + 0] = Xor(@, t0), ![r + 1] = Xor(@, t1), ![r + 2] = Xor(@, t2),
                  ![r + 3] = Xor(@, t3), ![r + 4] = Xor(@, t4)]

chi_unrolled(A) == chi_row(chi_row(chi_row(chi_row(chi_row(A, 0), 5), 10), 15), 20)

\* one iteration of the loop at lines 233-338
keccakf_round(A, i_r) ==
    LET B == chi_unrolled(pi_rho_theta(A, tmp_theta(parity(A))))
    IN  [B EXCEPT ![0] = Xor(B[0], RC[i_r + 1])]

keccakf_1600(A) == Loop(LAMBDA S, i_r : keccakf_round(S, i_r), A, 0, 23)

\* ------------------------------------------------------------------------
\* keccakf_1600, SHA3_KECCAKF_LOOP build
\* ------------------------------------------------------------------------
RC_LOOP ==
    << {0},
       {1, 7, 15},
       {1, 3, 7, 15, 63},
       {15, 31, 63},
       {0, 1, 3, 7, 15},
       {0, 31},
       {0, 7, 15, 31, 63},
       {0, 3, 15, 63},
       {1, 3, 7},
       {3, 7},
       {0, 3, 15, 31},
       {1, 3, 31},
       {0, 1, 3, 7, 15, 31},
       {0, 1, 3, 7, 63},
       {0, 3, 7, 15, 63},
       {0, 1, 15, 63},
       {1, 15, 63},
       {7, 63},
       {1, 3, 15},
       {1, 3, 31, 63},
       {0, 7, 15, 31, 63},
       {7, 15, 63},
       {0, 31},
       {3, 15, 31, 63} >>

\* the offsets of lanes 1 and 2 exchanged
rho_swapped ==
    <<    62,  1, 28, 27,
       36, 44,  6, 55, 20,
        3, 10, 43, 25, 39,
       41, 45, 15, 21,  8,
       18,  2, 61, 56, 14 >>

\* rho[24]: rho[i] is the offset of lane i + 1
rho ==
    <<     1, 62, 28, 27,
       36, 44,  6, 55, 20,
        3, 10, 43, 25, 39,
       41, 45, 15, 21,  8,
       18,  2, 61, 56, 14 >>

\* pi[24]
pi ==
    << 1,  6,  9, 22, 14, 20,
       2, 12, 13, 19, 23, 15,
       4, 24, 21,  8, 16,  5,
       3, 18, 17, 11,  7, 10 >>

\* lines 162-172
theta(A) ==
    LET P == Arr([i \in 0..4 |-> Xor(Xor(Xor(Xor(A[i], A[i + 5]), A[i + 10]), A[i + 15]), A[i + 20])])
        t == Arr([i \in 0..4 |-> Xor(P[(i + 4) % 5], rotl64(P[(i + 1) % 5], 1))])
    IN  Arr([k \in Lanes |-> Xor(A[k], t[k % 5])])

\* lines 177-178
rho_step(A) == Arr([k \in Lanes |-> IF k = 0 THEN A[k] ELSE rotl64(A[k], rho[k])])

\* lines 194-197: tmp[0] = A[pi[0]]; A[pi[i]] = A[pi[i + 1]] for i = 0..22; A[pi[23]] = tmp[0]
pi_step(A) ==
    LET B == Loop(LAMBDA S, i : [S EXCEPT ![pi[i + 1]] = S[pi[i + 2]]], A, 0, 22)
    IN  [B EXCEPT ![pi[24]] = A[pi[1]]]

\* lines 202-208
chi(A) ==
    Arr([k \in Lanes |->
        LET i == 5 * (k \div 5)
            j == k % 5
        IN  Xor(A[k], And(Not(A[i + ((j + 1) % 5)]), A[i + ((j + 2) % 5)]))])

\* line 213
iota(A, i_r) == [A EXCEPT ![0] = Xor(A[0], RC_LOOP[i_r + 1])]

keccakf_loop_round(A, i_r) == iota(chi(pi_step(rho_step(theta(A)))), i_r)

keccakf_1600_loop(A) == Loop(LAMBDA S, i_r : keccakf_loop_round(S, i_r), A, 0, 23)

\* ------------------------------------------------------------------------
\* struct sha3_ctx: the byte-wise view u8[200] of the lanes u64[25]
\* ------------------------------------------------------------------------
ByteOrders == {"little", "big"}

\* the one-bits of a byte value
Bits8(v) == {b \in 0..7 : (v \div (2 ^ b)) % 2 = 1}

Bit(x, q) == IF q \in x THEN 1 ELSE 0

\* byte j (bits 8j .. 8j+7) of lane x, as a number
ByteOf(x, j) ==
    Bit(x, 8 * j) + 2 * Bit(x, 8 * j + 1) + 4 * Bit(x, 8 * j + 2) + 8 * Bit(x, 8 * j + 3)
    + 16 * Bit(x, 8 * j + 4) + 32 * Bit(x, 8 * j + 5) + 64 * Bit(x, 8 * j + 6)
    + 128 * Bit(x, 8 * j + 7)

\* byte v placed at byte j of a lane
AtByte(v, j) == {8 * j + b : b \in Bits8(v)}

\* the byte of a lane's value that is stored at address offset o (0..7) in the lane
u8_pos(e, o) == IF e = "big" THEN 7 - o ELSE o

\* ctx->u8[k]
u8_get(u64, e, k) == ByteOf(u64[k \div 8], u8_pos(e, k % 8))

\* ctx->u8[k] ^= v
u8_xor(u64, e, k, v) == [u64 EXCEPT ![k \div 8] = Xor(@, AtByte(v, u8_pos(e, k % 8)))]

\* ------------------------------------------------------------------------
\* read64le
\* ------------------------------------------------------------------------
Shr(x, n) == {b - n : b \in {c \in x : c >= n}}

Shl(x, n, w) == {b + n : b \in {c \in x : c + n < w}}

\* x >> 24 | ((x >> 8) & 0xff00) | ((x << 8) & 0xff0000) | x << 24, on uint32_t
bswap32(x) ==
    Shr(x, 24) \cup And(Shr(x, 8), 8..15) \cup And(Shl(x, 8, 32), 16..23) \cup Shl(x, 24, 32)

\* (bswap32(x) + 0ULL) << 32 | bswap32(x >> 32); the argument of bswap32 is
\* converted to uint32_t
bswap64(x) == Shl(bswap32(And(x, 0..31)), 32, 64) \cup bswap32(And(Shr(x, 32), 0..31))

\* *p for a uint64_t pointer p to the eight bytes w[1..8], in the byte order of the build
load64(e, w) == UNION {AtByte(w[o + 1], u8_pos(e, o)) : o \in 0..7}

read64le(e, w) == IF e = "big" THEN bswap64(load64(e, w)) ELSE load64(e, w)

\* ------------------------------------------------------------------------
\* sha3_init, sha3_update, sha3_final
\* ------------------------------------------------------------------------
\* A context is [index, rate, size, u64]; index, rate and size are uint8_t.
\* The loops carry [ctx, perms]: perms counts the calls of keccakf_1600.
sha3_init(c, algo) ==
    [index |-> 0, rate |-> (200 - 2 * algo) % 256, size |-> algo % 256, u64 |-> ZeroState]

\* the fill index left at the rate after the permutation
block_full_no_reset(m) ==
    IF m.ctx.index = m.ctx.rate
    THEN [ctx |-> [m.ctx EXCEPT !.u64 = keccakf_1600(m.ctx.u64)], perms |-> m.perms + 1]
    ELSE m

\* if (ctx->index == ctx->rate) { ctx->index = 0; keccakf_1600(ctx->u64); }
block_full(m) ==
    IF m.ctx.index = m.ctx.rate
    THEN [ctx |-> [m.ctx EXCEPT !.index = 0, !.u64 = keccakf_1600(m.ctx.u64)],
          perms |-> m.perms + 1]
    ELSE m

\* the fast path without the test for a full block
update_word_no_check(e, m, w) ==
    LET c == m.ctx
    IN  [m EXCEPT !.ctx = [c EXCEPT !.u64[c.index \div 8] = Xor(@, read64le(e, w)),
                                    !.index = (c.index + 8) % 256]]

\* body of the loop at lines 357-366, w the eight bytes at p
update_word(e, m, w) ==
    LET c == m.ctx
    IN  block_full([m EXCEPT !.ctx = [c EXCEPT !.u64[c.index \div 8] = Xor(@, read64le(e, w)),
                                               !.index = (c.index + 8) % 256]])

\* body of the loop at lines 382-394, v the byte at p
update_byte(e, m, v) ==
    LET c == m.ctx
        i == c.index
        k == IF e = "big" THEN (i \div 8) + (7 - (i % 8)) ELSE i
    IN  block_full([m EXCEPT !.ctx = [c EXCEPT !.u64 = u8_xor(c.u64, e, k, v),
                                               !.index = (i + 1) % 256]])

\* lines 356-366: one word of buf per iteration
sha3_update_aligned(e, m, buf, len) ==
    Loop(LAMBDA h, n : update_word(e, h, [o \in 1..8 |-> buf[8 * (n - 1) + o]]), m, 1, len \div 8)

\* line 376
fast_path(c, len, aligned) == len % 8 = 0 /\ c.index % 8 = 0 /\ aligned

\* buf[1..len] is the input, aligned tells whether buf is on an 8-byte boundary
sha3_update(e, m, buf, len, aligned) ==
    IF fast_path(m.ctx, len, aligned) THEN sha3_update_aligned(e, m, buf, len)
    ELSE Loop(LAMBDA h, n : update_byte(e, h, buf[n]), m, 1, len)

\* md[k] is -1 where nothing was written
MdLen == 72

NoDigest == Arr([k \in 0..(MdLen - 1) |-> -1])

\* 0x80 XORed into the byte after the block instead of its last byte
final_pad_past_block(e, c) ==
    [c EXCEPT !.u64 = u8_xor(u8_xor(c.u64, e, c.index, 6), e, c.rate, 128)]

\* lines 424-425: ctx->u8[ctx->index] ^= 0x06; ctx->u8[ctx->rate - 1] ^= 0x80;
final_pad(e, c) ==
    [c EXCEPT !.u64 = u8_xor(u8_xor(c.u64, e, c.index, 6), e, c.rate - 1, 128)]

\* ctx->rate bytes copied instead of ctx->size
final_digest_rate(e, c) ==
    Arr([k \in 0..(MdLen - 1) |-> IF k < c.rate THEN u8_get(c.u64, e, k) ELSE NoDigest[k]])

\* line 433: memcpy(md, ctx->u8, ctx->size)
final_digest(e, c) ==
    Arr([k \in 0..(MdLen - 1) |-> IF k < c.size THEN u8_get(c.u64, e, k) ELSE NoDigest[k]])

\* the memset left out
final_wipe_skipped(c) == c

\* line 434: memset(ctx->u8, 0, 200)
final_wipe(c) == [c EXCEPT !.u64 = ZeroState]

\* the result carries the state after the padding (padded) and after the last
\* permutation (squeezed), which the context no longer holds on return
sha3_final(e, m) ==
    LET c1 == final_pad(e, m.ctx)
        rest(c2) ==
            [ctx |-> final_wipe(c2),
             perms |-> m.perms + 1,
             md |-> final_digest(e, c2),
             padded |-> c1.u64,
             squeezed |-> c2.u64]
    IN  Call(rest, [c1 EXCEPT !.u64 = keccakf_1600(c1.u64)])

\* ------------------------------------------------------------------------
\* A caller hashing a prefix of a byte stream
\* ------------------------------------------------------------------------
VARIABLES
    endian,     \* byte order of the build (__BYTE_ORDER__)
    pc,         \* "raw": never initialised, "init": after sha3_init,
                \* "absorbing": after a sha3_update, "done": after sha3_final
    algo,       \* the selector given to the last sha3_init
    total,      \* bytes given to sha3_update since the last sha3_init
    ctx,        \* struct sha3_ctx
    perms,      \* calls of keccakf_1600 since the last sha3_init
    md,         \* the caller's digest buffer
    padded,     \* u64 in sha3_final after line 425
    squeezed,   \* u64 in sha3_final after line 431
    kin,        \* input state of the permutation under comparison
    kr,         \* rounds applied to it
    kU,         \* state of the unrolled build after kr rounds
    kL,         \* state of the SHA3_KECCAKF_LOOP build after kr rounds
    kpi_in,     \* state before the pi step of the last round of the loop build
    kpi_out     \* state after it

vars == <<endian, pc, algo, total, ctx, perms, md, padded, squeezed,
          kin, kr, kU, kL, kpi_in, kpi_out>>

\* enum sha3_algo
SHA3_224 == 28

SHA3_256 == 32

SHA3_384 == 48

SHA3_512 == 64

Algos == {SHA3_224, SHA3_256, SHA3_384, SHA3_512}

\* the message: "abc", then bytes that differ from position to position
Stream(p) == IF p < 3 THEN 97 + p ELSE (37 * p + 11) % 256

\* bytes from .. from + len - 1 of the message, as buf[1..len]
Chunk(from, len) == Arr([k \in 1..len |-> Stream(from + k - 1)])

\* length of the longest message: a block and nine bytes of SHA3-224, two
\* blocks and nine bytes of SHA3-512
MaxLen == 153

\* lengths of one sha3_update call
ChunkLens(a) == {0, 1, 7, 200 - 2 * a - 1, 200 - 2 * a}

\* memory before sha3_init: any content
RawCtx ==
    { [index |-> 0, rate |-> 0, size |-> 0, u64 |-> ZeroState],
      [index |-> 77, rate |-> 3, size |-> 200, u64 |-> Arr([k \in Lanes |-> {k, 63 - k}])] }

KIdle ==
    /\ kin = ZeroState
    /\ kr = 0
    /\ kU = ZeroState
    /\ kL = ZeroState
    /\ kpi_in = ZeroState
    /\ kpi_out = ZeroState

Init ==
    /\ endian \in ByteOrders
    /\ pc = "raw"
    /\ algo = 0
    /\ total = 0
    /\ ctx \in RawCtx
    /\ perms = 0
    /\ md = NoDigest
    /\ padded = ZeroState
    /\ squeezed = ZeroState
    /\ KIdle

\* sha3_init(&ctx, a), with a fresh digest buffer for the new message
DoInit(a) ==
    /\ ctx' = sha3_init(ctx, a)
    /\ pc' = "init"
    /\ algo' = a
    /\ total' = 0
    /\ perms' = 0
    /\ md' = NoDigest
    /\ padded' = ZeroState
    /\ squeezed' = ZeroState
    /\ UNCHANGED <<endian, kin, kr, kU, kL, kpi_in, kpi_out>>

\* sha3_update(&ctx, buf, len) with the next len bytes of the message
DoUpdate(len, aligned) ==
    /\ pc \in {"init", "absorbing"}
    /\ total + len <= MaxLen
    /\ \E m \in {sha3_update(endian, [ctx |-> ctx, perms |-> perms], Chunk(total, len), len, aligned)} :
           /\ ctx' = m.ctx
           /\ perms' = m.perms
    /\ pc' = "absorbing"
    /\ total' = total + len
    /\ UNCHANGED <<endian, algo, md, padded, squeezed, kin, kr, kU, kL, kpi_in, kpi_out>>

\* sha3_final(&ctx, md)
DoFinal ==
    /\ pc \in {"init", "absorbing"}
    /\ \E f \in {sha3_final(endian, [ctx |-> ctx, perms |-> perms])} :
           /\ ctx' = f.ctx
           /\ perms' = f.perms
           /\ md' = f.md
           /\ padded' = f.padded
           /\ squeezed' = f.squeezed
    /\ pc' = "done"
    /\ UNCHANGED <<endian, algo, total, kin, kr, kU, kL, kpi_in, kpi_out>>

Next ==
    \/ \E a \in Algos : DoInit(a)
    \/ \E len \in ChunkLens(algo), aligned \in BOOLEAN : DoUpdate(len, aligned)
    \/ DoFinal

Spec == Init /\ [][Next]_vars

\* ------------------------------------------------------------------------
\* The two builds of keccakf_1600 side by side, one round at a time
\* ------------------------------------------------------------------------
MaxKInput == 5

\* input states: the zero state, and states whose lanes all differ
KInput(n) ==
    IF n = 0 THEN ZeroState
    ELSE Arr([k \in Lanes |-> {k} \cup {b \in 25..63 : (b + n * k) % (n + 1) = 0}])

KInit ==
    /\ endian = "little"
    /\ pc = "raw"
    /\ algo = 0
    /\ total = 0
    /\ ctx = [index |-> 0, rate |-> 0, size |-> 0, u64 |-> ZeroState]
    /\ perms = 0
    /\ md = NoDigest
    /\ padded = ZeroState
    /\ squeezed = ZeroState
    /\ \E n \in 0..MaxKInput : kin = KInput(n)
    /\ kr = 0
    /\ kU = kin
    /\ kL = kin
    /\ kpi_in = kin
    /\ kpi_out = kin

\* round kr of both builds
KRound ==
    /\ kr < 24
    /\ kU' = keccakf_round(kU, kr)
    /\ kL' = keccakf_loop_round(kL, kr)
    /\ \E B \in {rho_step(theta(kL))} :
           /\ kpi_in' = B
           /\ kpi_out' = pi_step(B)
    /\ kr' = kr + 1
    /\ UNCHANGED <<kin, endian, pc, algo, total, ctx, perms, md, padded, squeezed>>

KNext == KRound

SpecK == KInit /\ [][KNext]_vars

\* ------------------------------------------------------------------------
\* Properties
\* ------------------------------------------------------------------------
XorByte(a, b) == ByteOf(Xor(Bits8(a), Bits8(b)), 0)

Absorbing == pc \in {"init", "absorbing"}

\* C1: chunking invariance. However the bytes absorbed so far were split into
\* sha3_update calls, the state bytes and the fill index equal those of one
\* sha3_update call with all of them on a freshly initialised context, whether
\* that call takes the per-byte loop or the 8-byte fast path.
C1_ChunkingInvariance ==
    Absorbing =>
        \A aligned \in BOOLEAN :
            \E one \in {sha3_update(endian, [ctx |-> sha3_init(ctx, algo), perms |-> 0],
                                   Chunk(0, total), total, aligned)} :
                /\ one.ctx.index = ctx.index
                /\ one.ctx.u64 = ctx.u64

\* C2: sha3_final writes the FIPS 202 digest of the message, for the empty
\* message and for "abc", for each of SHA3-224/256/384/512.
C2_Fips202Digest ==
    LET KAT ==
               \* SHA3-224("") = 6b4e03423667dbb73b6e15454f0eb1abd4597f9a1b078e3f5b5a6bc7
               <<28, 0>> :> <<107, 78, 3, 66, 54, 103, 219, 183, 59, 110, 21, 69, 79, 14, 177, 171, 212, 89, 127, 154, 27, 7, 142, 63, 91, 90, 107, 199>>
               \* SHA3-224("abc") = e642824c3f8cf24ad09234ee7d3c766fc9a3a5168d0c94ad73b46fdf
               @@ <<28, 3>> :> <<230, 66, 130, 76, 63, 140, 242, 74, 208, 146, 52, 238, 125, 60, 118, 111, 201, 163, 165, 22, 141, 12, 148, 173, 115, 180, 111, 223>>
               \* SHA3-256("") = a7ffc6f8bf1ed76651c14756a061d662f580ff4de43b49fa82d80a4b80f8434a
               @@ <<32, 0>> :> <<167, 255, 198, 248, 191, 30, 215, 102, 81, 193, 71, 86, 160, 97, 214, 98, 245, 128, 255, 77, 228, 59, 73, 250, 130, 216, 10, 75, 128, 248, 67, 74>>
               \* SHA3-256("abc") = 3a985da74fe225b2045c172d6bd390bd855f086e3e9d525b46bfe24511431532
               @@ <<32, 3>> :> <<58, 152, 93, 167, 79, 226, 37, 178, 4, 92, 23, 45, 107, 211, 144, 189, 133, 95, 8, 110, 62, 157, 82, 91, 70, 191, 226, 69, 17, 67, 21, 50>>
               \* SHA3-384("") = 0c63a75b845e4f7d01107d852e4c2485c51a50aaaa94fc61995e71bbee983a2ac3713831264adb47fb6bd1e058d5f004
               @@ <<48, 0>> :> <<12, 99, 167, 91, 132, 94, 79, 125, 1, 16, 125, 133, 46, 76, 36, 133, 197, 26, 80, 170, 170, 148, 252, 97, 153, 94, 113, 187, 238, 152, 58, 42, 195, 113, 56, 49, 38, 74, 219, 71, 251, 107, 209, 224, 88, 213, 240, 4>>
               \* SHA3-384("abc") = ec01498288516fc926459f58e2c6ad8df9b473cb0fc08c2596da7cf0e49be4b298d88cea927ac7f539f1edf228376d25
               @@ <<48, 3>> :> <<236, 1, 73, 130, 136, 81, 111, 201, 38, 69, 159, 88, 226, 198, 173, 141, 249, 180, 115, 203, 15, 192, 140, 37, 150, 218, 124, 240, 228, 155, 228, 178, 152, 216, 140, 234, 146, 122, 199, 245, 57, 241, 237, 242, 40, 55, 109, 37>>
               \* SHA3-512("") = a69f73cca23a9ac5c8b567dc185a756e97c982164fe25859e0d1dcc1475c80a615b2123af1f5f94c11e3e9402c3ac558f500199d95b6d3e301758586281dcd26
               @@ <<64, 0>> :> <<166, 159, 115, 204, 162, 58, 154, 197, 200, 181, 103, 220, 24, 90, 117, 110, 151, 201, 130, 22, 79, 226, 88, 89, 224, 209, 220, 193, 71, 92, 128, 166, 21, 178, 18, 58, 241, 245, 249, 76, 17, 227, 233, 64, 44, 58, 197, 88, 245, 0, 25, 157, 149, 182, 211, 227, 1, 117, 133, 134, 40, 29, 205, 38>>
               \* SHA3-512("abc") = b751850b1a57168a5693cd924b6b096e08f621827444f70d884f5d0240d2712e10e116e9192af3c91a7ec57647e3934057340b4cf408d5a56592f8274eec53f0
               @@ <<64, 3>> :> <<183, 81, 133, 11, 26, 87, 22, 138, 86, 147, 205, 146, 75, 107, 9, 110, 8, 246, 33, 130, 116, 68, 247, 13, 136, 79, 93, 2, 64, 210, 113, 46, 16, 225, 22, 233, 25, 42, 243, 201, 26, 126, 197, 118, 71, 227, 147, 64, 87, 52, 11, 76, 244, 8, 213, 165, 101, 146, 248, 39, 78, 236, 83, 240>>
    IN  (pc = "done" /\ <<algo, total>> \in DOMAIN KAT) =>
            \A k \in 0..(algo - 1) : md[k] = KAT[<<algo, total>>][k + 1]

\* the bytes buf[1..len] XORed into u64 from fill index i on, byte at fill
\* index j into bits 8*(j mod 8) .. 8*(j mod 8)+7 of lane j div 8
AbsorbLE(u64, i, buf, len) ==
    Arr([l \in Lanes |->
            Xor(u64[l], UNION {AtByte(buf[k], (i + k - 1) % 8) :
                                  k \in {n \in 1..len : (i + n - 1) \div 8 = l}})])

\* C3: little-endian lanes on every host. A sha3_update call that starts at
\* fill index i and stays within the block XORs each input byte, absorbed at
\* fill index j, into bits 8*(j mod 8) .. 8*(j mod 8)+7 of lane j div 8; a call
\* that ends exactly at the rate does so and then applies the permutation.
C3_LittleEndianLanes ==
    [][(Absorbing /\ pc' = "absorbing" /\ total' > total) =>
          LET len == total' - total
              want == AbsorbLE(ctx.u64, ctx.index, Chunk(total, len), len)
          IN  /\ (ctx.index + len < ctx.rate) => ctx'.u64 = want
              /\ (ctx.index + len = ctx.rate) => ctx'.u64 = keccakf_1600(want)]_vars

\* the padding mask of state byte k
PadMask(c, k) == (IF k = c.index THEN 6 ELSE 0) + (IF k = c.rate - 1 THEN 128 ELSE 0)

\* C4: padding. sha3_final XORs 0x06 into state byte index and 0x80 into state
\* byte rate-1 (0x86 when they are the same byte) and changes no other state
\* byte before the permutation.
C4_Padding ==
    [][(Absorbing /\ pc' = "done") =>
          \A k \in 0..199 :
              u8_get(padded', endian, k) = XorByte(u8_get(ctx.u64, endian, k), PadMask(ctx, k))]_vars

\* a message one byte short of the rate was finalised: both masks on byte rate-1
C4_Witness ==
    /\ pc = "done"
    /\ total = ctx.rate - 1
    /\ ctx.index = ctx.rate - 1
    /\ u8_get(padded, endian, ctx.rate - 1) = 134

\* C5: state wipe. After sha3_final all 200 state bytes are zero.
C5_StateWiped ==
    pc = "done" => \A k \in 0..199 : u8_get(ctx.u64, endian, k) = 0

\* sha3_final returned after more than a block was absorbed, its last
\* permutation having left a non-zero state
C5_Witness ==
    /\ pc = "done"
    /\ total > ctx.rate
    /\ squeezed # ZeroState

\* C6: digest size. sha3_final writes the first `digest size` bytes of the state
\* after the final permutation to md, and nothing after them.
C6_DigestSize ==
    pc = "done" =>
        \A k \in 0..(MdLen - 1) :
            md[k] = IF k < algo THEN u8_get(squeezed, endian, k) ELSE -1

\* a SHA3-224 digest of more than a block: byte 27 written, byte 28 not
C6_Witness ==
    /\ pc = "done"
    /\ algo = SHA3_224
    /\ total > ctx.rate
    /\ md[27] # -1
    /\ md[28] = -1

\* C7: fill index. After sha3_init the fill index is 0, the rate 200 - 2*size
\* and the state zero; after every sha3_update 0 <= index < rate, index is the
\* number of bytes absorbed modulo the rate, and rate and size are unchanged.
C7_FillIndex ==
    Absorbing =>
        /\ ctx.size = algo
        /\ ctx.rate = 200 - 2 * algo
        /\ ctx.rate \in {144, 136, 104, 72}
        /\ 0 <= ctx.index /\ ctx.index < ctx.rate
        /\ ctx.index = total % ctx.rate
        /\ pc = "init" => (ctx.index = 0 /\ \A k \in 0..199 : u8_get(ctx.u64, endian, k) = 0)

\* sha3_update returned with more than a block absorbed and a partial block pending
C7_Witness ==
    /\ pc = "absorbing"
    /\ total > ctx.rate
    /\ ctx.index = total - ctx.rate
    /\ ctx.index > 0

\* C8: the permutation runs once per full block during sha3_update and once
\* more in sha3_final: floor(L / rate) times before, floor(L / rate) + 1 times
\* after sha3_final, for a message of L bytes however it is chunked.
C8_PermutationCount ==
    /\ Absorbing => perms = total \div ctx.rate
    /\ pc = "done" => perms = (total \div ctx.rate) + 1

\* a message of at least one block was finalised: two permutations
C8_Witness ==
    /\ pc = "done"
    /\ total >= ctx.rate
    /\ perms = 2

\* C9: the unrolled and the loop-based keccakf_1600 agree after every round.
C9_BuildsAgree == kU = kL

\* both builds have run all 24 rounds on an input with 25 different lanes
C9_Witness ==
    /\ kr = 24
    /\ kin # ZeroState
    /\ kU # kin
    /\ kU = kL

\* C10: the pi step moves the lane at index 1 to index 6, leaves lane 0 at
\* index 0 and permutes the 25 lane positions.
C10_PiDocExample ==
    kr > 0 =>
        /\ kpi_out[6] = kpi_in[1]
        /\ kpi_out[0] = kpi_in[0]
        /\ \A j \in Lanes :
               Cardinality({k \in Lanes : kpi_out[k] = kpi_in[j]})
                   = Cardinality({k \in Lanes : kpi_in[k] = kpi_in[j]})

====
